---- MODULE Spec2Model ----
(***************************************************************************)
(* A model of the fsm-rs workspace: the Thompson regex compiler and its    *)
(* NFA simulation (regex-thompson/src/lib.rs), the deterministic automaton *)
(* of the fsm crate and its arena (fsm/src/dfa/mod.rs, util/arena.rs) and  *)
(* the NFA state of fsm-acceptor (fsm-acceptor/src/nfa/state.rs).          *)
(*                                                                         *)
(* A character is a one-symbol string; a Rust &str is a sequence of        *)
(* characters.  State identifiers are the zero-based Vec indices of the    *)
(* source: the state with identifier i is element i + 1 of the sequence.   *)
(***************************************************************************)
EXTENDS Naturals, Sequences, FiniteSets

VARIABLES
    pc,         \* position of the Regex::new / Regex::matches pipeline
    pattern,    \* the pattern handed to Regex::new
    input,      \* the string handed to Regex::matches
    explicit,   \* result of insert_explicit_concat_operator
    postfix,    \* result of to_postfix
    nfa,        \* Nfa.states
    start,      \* Regex.start
    result,     \* result of Regex::matches / Nfa::matches
    frags,      \* the fragments the caller of the builders still owns
    dfa,        \* Dfa.states (the arena's items)
    word,       \* the word handed to Dfa::accepts
    accepted,   \* result of Dfa::accepts
    idx,        \* Nfa::matches: number of input symbols taken so far
    current_states, \* Nfa::matches: current_states
    next_states,    \* Nfa::matches: next_states
    todo,       \* Nfa::matches: states of current_states not yet iterated
    cl_stack,   \* multi_epsilon_closure: stack
    cl_visited, \* multi_epsilon_closure: visited
    arena,      \* Arena.items of an arena of plain items
    new_id,     \* the identifier the last allocation of SpecAlloc returned
    nstate,     \* a State of the fsm-acceptor NFA
    added       \* the add_transition / add_epsilon_transition calls made on it, in order

regexVars == <<pattern, explicit, postfix>>
builderVars == <<frags>>
dfaVars == <<dfa, word, accepted>>
matchVars == <<idx, current_states, next_states, todo, cl_stack, cl_visited>>
allocVars == <<arena, new_id>>
acceptorVars == <<nstate, added>>

vars ==
    <<pc, input, nfa, start, result, regexVars, builderVars, dfaVars, matchVars,
      allocVars, acceptorVars>>

----------------------------------------------------------------------------
(* Bounds of the model *)

MaxRegexSize == 5
MaxInputLen == 4
MaxLitLen == 2
MaxMalformedLen == 3
MaxComplexLen == 3
MaxFragmentsBuilt == 4
MaxDfaStates == 2
MaxWordLen == 4
MaxStepRegexSize == 3
MaxStepInputLen == 2
MaxAllocs == 3
MaxAdds == 4
MaxTextLen == 4
MaxExprSize == 5
MaxFoldLen == 3

----------------------------------------------------------------------------
(* Characters *)

NUL == "\\0"
Literals == {"a", "b"}
Wildcard == "."
ComplexLiterals == {"a", "b", "c", "d", "e"}

RECURSIVE StringsOfLen(_, _)
StringsOfLen(alphabet, n) ==
    IF n = 0 THEN {<<>>}
    ELSE {Append(s, c) : s \in StringsOfLen(alphabet, n - 1), c \in alphabet}

StringsUpTo(alphabet, n) == UNION {StringsOfLen(alphabet, k) : k \in 0..n}

----------------------------------------------------------------------------
(* insert_explicit_concat_operator *)

RECURSIVE InsertLoopBeforeQuestion(_, _, _)
InsertLoopBeforeQuestion(pat, i, output) ==
    IF i > Len(pat) THEN output
    ELSE LET token == pat[i]
             marker ==
                 IF i > 1
                    /\ ~(pat[i - 1] = "(" \/ pat[i - 1] = "|")
                    /\ ~(token = "*" \/ token = "+"
                         \/ token = "|" \/ token = ")")
                 THEN <<NUL>> ELSE <<>>
         IN InsertLoopBeforeQuestion(pat, i + 1, output \o marker \o <<token>>)

RECURSIVE InsertLoop(_, _, _)
InsertLoop(pat, i, output) ==
    IF i > Len(pat) THEN output
    ELSE LET token == pat[i]
             marker ==
                 IF i > 1
                    /\ ~(pat[i - 1] = "(" \/ pat[i - 1] = "|")
                    /\ ~(token = "*" \/ token = "?" \/ token = "+"
                         \/ token = "|" \/ token = ")")
                 THEN <<NUL>> ELSE <<>>
         IN InsertLoop(pat, i + 1, output \o marker \o <<token>>)

InsertExplicitConcatOperator(pat) == InsertLoop(pat, 1, <<>>)

----------------------------------------------------------------------------
(* to_postfix *)

OperatorPrecedenceSwapped ==
    [c \in {"|", NUL, "?", "*", "+"} |->
        IF c = "|" THEN 1 ELSE IF c = NUL THEN 0 ELSE 2]

OperatorPrecedence ==
    [c \in {"|", NUL, "?", "*", "+"} |->
        IF c = "|" THEN 0 ELSE IF c = NUL THEN 1 ELSE 2]

Last(s) == s[Len(s)]
Pop(s) == SubSeq(s, 1, Len(s) - 1)

\* while operator_stack.last() is not '(': output.push(operator_stack.pop())
RECURSIVE PopUntilParen(_, _)
PopUntilParen(output, stack) ==
    IF Len(stack) > 0 /\ Last(stack) # "("
    THEN PopUntilParen(Append(output, Last(stack)), Pop(stack))
    ELSE <<output, stack>>

RECURSIVE PopHigherStrictly(_, _, _)
PopHigherStrictly(output, stack, token) ==
    IF Len(stack) > 0 /\ Last(stack) # "("
       /\ OperatorPrecedence[Last(stack)] > OperatorPrecedence[token]
    THEN PopHigherStrictly(Append(output, Last(stack)), Pop(stack), token)
    ELSE <<output, stack>>

\* while the top is an operator of precedence >= token's: pop it to the output
RECURSIVE PopHigher(_, _, _)
PopHigher(output, stack, token) ==
    IF Len(stack) > 0 /\ Last(stack) # "("
       /\ OperatorPrecedence[Last(stack)] >= OperatorPrecedence[token]
    THEN PopHigher(Append(output, Last(stack)), Pop(stack), token)
    ELSE <<output, stack>>

\* while !operator_stack.is_empty(): output.push(operator_stack.pop())
RECURSIVE PopAll(_, _)
PopAll(output, stack) ==
    IF Len(stack) > 0 THEN PopAll(Append(output, Last(stack)), Pop(stack))
    ELSE output

RECURSIVE PostfixLoop(_, _, _, _)
PostfixLoop(pat, i, output, stack) ==
    IF i > Len(pat) THEN PopAll(output, stack)
    ELSE LET token == pat[i] IN
         IF token = "(" THEN PostfixLoop(pat, i + 1, output, Append(stack, token))
         ELSE IF token = ")" THEN
             LET p == PopUntilParen(output, stack)
             IN PostfixLoop(pat, i + 1, p[1],
                            IF Len(p[2]) > 0 THEN Pop(p[2]) ELSE p[2])
         ELSE IF token \in {NUL, "|", "*", "?", "+"} THEN
             LET p == PopHigher(output, stack, token)
             IN PostfixLoop(pat, i + 1, p[1], Append(p[2], token))
         ELSE PostfixLoop(pat, i + 1, Append(output, token), stack)

ToPostfix(pat) == PostfixLoop(pat, 1, <<>>, <<>>)

----------------------------------------------------------------------------
(* State, Fragment and Nfa *)

\* State::new: no transitions; transitions is a map, held as its set of
\* <<symbol, destination>> entries
NewState(id, accepting) ==
    [id |-> id, accepting |-> accepting,
     transitions |-> {}, epsilon_transitions |-> {}]

Fragment(s, e) == [start |-> s, end |-> e]

NfaNew == <<>>

\* Nfa::new_state pushes State::new(len, accepting); the id is the old length
NewStatePush(states, accepting) ==
    Append(states, NewState(Len(states), accepting))

\* The identifier Nfa::new_state returns
NewStateId(states) == Len(states)

\* Nfa::state
StateAt(states, index) == states[index + 1]

\* HashMap::insert: the entry of the key is replaced
MapInsert(map, c, to) == {t \in map : t[1] # c} \cup {<<c, to>>}

\* HashMap::get, as the set of the values found (empty for None)
MapGet(map, c) == {t[2] : t \in {x \in map : x[1] = c}}

InsertTransition(states, from, c, to) ==
    [states EXCEPT ![from + 1].transitions = MapInsert(@, c, to)]

AddEpsilon(states, from, to) ==
    [states EXCEPT ![from + 1].epsilon_transitions = @ \cup {to}]

ClearAccepting(states, index) ==
    [states EXCEPT ![index + 1].accepting = FALSE]

\* The builders give back the automaton and the fragment they return.
Built(states, f) == [states |-> states, frag |-> f]

SymbolStartAccepting(states, c) ==
    LET s == Len(states)
        e == Len(states) + 1
        s1 == NewStatePush(NewStatePush(states, TRUE), TRUE)
    IN Built(InsertTransition(s1, s, c, e), Fragment(s, e))

Symbol(states, c) ==
    LET s == Len(states)
        e == Len(states) + 1
        s1 == NewStatePush(NewStatePush(states, FALSE), TRUE)
    IN Built(InsertTransition(s1, s, c, e), Fragment(s, e))

ConcatKeepsAccepting(states, f1, f2) ==
    Built(AddEpsilon(states, f1.end, f2.start), Fragment(f1.start, f2.end))

Concat(states, f1, f2) ==
    Built(ClearAccepting(AddEpsilon(states, f1.end, f2.start), f1.end),
          Fragment(f1.start, f2.end))

UnionOneBranch(states, f1, f2) ==
    LET s == Len(states)
        e == Len(states) + 1
        s1 == NewStatePush(NewStatePush(states, FALSE), TRUE)
        s2 == AddEpsilon(s1, s, f1.start)
        s4 == AddEpsilon(s2, f1.end, e)
        s5 == AddEpsilon(s4, f2.end, e)
    IN Built(ClearAccepting(ClearAccepting(s5, f1.end), f2.end), Fragment(s, e))

Union(states, f1, f2) ==
    LET s == Len(states)
        e == Len(states) + 1
        s1 == NewStatePush(NewStatePush(states, FALSE), TRUE)
        s2 == AddEpsilon(s1, s, f1.start)
        s3 == AddEpsilon(s2, s, f2.start)
        s4 == AddEpsilon(s3, f1.end, e)
        s5 == AddEpsilon(s4, f2.end, e)
    IN Built(ClearAccepting(ClearAccepting(s5, f1.end), f2.end), Fragment(s, e))

ClosureNoSkip(states, f) ==
    LET s == Len(states)
        e == Len(states) + 1
        s1 == NewStatePush(NewStatePush(states, FALSE), TRUE)
        s2 == AddEpsilon(s1, s, f.start)
        s4 == AddEpsilon(s2, f.end, f.start)
        s5 == AddEpsilon(s4, f.end, e)
    IN Built(ClearAccepting(s5, f.end), Fragment(s, e))

ClosureNoRepeat(states, f) ==
    LET s == Len(states)
        e == Len(states) + 1
        s1 == NewStatePush(NewStatePush(states, FALSE), TRUE)
        s2 == AddEpsilon(s1, s, f.start)
        s3 == AddEpsilon(s2, s, e)
        s5 == AddEpsilon(s3, f.end, e)
    IN Built(ClearAccepting(s5, f.end), Fragment(s, e))

Closure(states, f) ==
    LET s == Len(states)
        e == Len(states) + 1
        s1 == NewStatePush(NewStatePush(states, FALSE), TRUE)
        s2 == AddEpsilon(s1, s, f.start)
        s3 == AddEpsilon(s2, s, e)
        s4 == AddEpsilon(s3, f.end, f.start)
        s5 == AddEpsilon(s4, f.end, e)
    IN Built(ClearAccepting(s5, f.end), Fragment(s, e))

----------------------------------------------------------------------------
(* State of the fsm-acceptor NFA (fsm-acceptor/src/nfa/state.rs) *)

\* MultiMap::new and HashSet::new: transitions is a multimap, held as its set
\* of <<symbol, vector of destinations>> entries
AcceptorStateNew(id, accepting) ==
    [id |-> id, accepting |-> accepting,
     transitions |-> {}, epsilon_transitions |-> {}]

\* MultiMap::get_vec, as the set of the vectors found (empty for None)
MultiMapGetVec(map, symbol) == {t[2] : t \in {x \in map : x[1] = symbol}}

MultiMapInsertReplaces(map, symbol, to) ==
    {t \in map : t[1] # symbol} \cup {<<symbol, <<to>> >>}

\* MultiMap::insert: the value is pushed on the vector of the key
MultiMapInsert(map, symbol, to) ==
    LET old == MultiMapGetVec(map, symbol)
        vec == IF old = {} THEN <<>> ELSE CHOOSE v \in old : TRUE
    IN {t \in map : t[1] # symbol} \cup {<<symbol, Append(vec, to)>>}

AcceptorAddTransition(st, symbol, to) ==
    [st EXCEPT !.transitions = MultiMapInsert(@, symbol, to)]

AcceptorAddEpsilonTransition(st, to) ==
    [st EXCEPT !.epsilon_transitions = @ \cup {to}]

AcceptorNext(st, symbol) == MultiMapGetVec(st.transitions, symbol)

AcceptorNextEpsilon(st) == st.epsilon_transitions

----------------------------------------------------------------------------
(* Nfa::parse *)

\* The outcome of parse: ok is FALSE when an unwrap of None panicked.
Panicked == [ok |-> FALSE, states |-> <<>>, stack |-> <<>>]
Parsing(states, stack) == [ok |-> TRUE, states |-> states, stack |-> stack]

\* for token in postfix.chars() { match token { ... } }
RECURSIVE ParseLoop(_, _, _, _)
ParseLoop(states, stack, tokens, i) ==
    IF i > Len(tokens) THEN Parsing(states, stack)
    ELSE LET token == tokens[i] IN
         IF token = NUL \/ token = "|" THEN
             IF Len(stack) < 2 THEN Panicked
             ELSE LET f2 == stack[Len(stack)]
                      f1 == stack[Len(stack) - 1]
                      b == IF token = NUL THEN Concat(states, f1, f2)
                                          ELSE Union(states, f1, f2)
                  IN ParseLoop(b.states, Append(Pop(Pop(stack)), b.frag),
                               tokens, i + 1)
         ELSE IF token = "*" THEN
             IF Len(stack) < 1 THEN Panicked
             ELSE LET b == Closure(states, Last(stack))
                  IN ParseLoop(b.states, Append(Pop(stack), b.frag), tokens, i + 1)
         ELSE LET b == Symbol(states, token)
              IN ParseLoop(b.states, Append(stack, b.frag), tokens, i + 1)

RECURSIVE ReduceConcatSwapped(_, _, _, _)
ReduceConcatSwapped(states, acc, stack, i) ==
    IF i > Len(stack) THEN Built(states, acc)
    ELSE LET b == Concat(states, stack[i], acc)
         IN ReduceConcatSwapped(b.states, b.frag, stack, i + 1)

\* stack.into_iter().reduce(|f1, f2| self.concat(f1, f2)): a left fold
RECURSIVE ReduceConcat(_, _, _, _)
ReduceConcat(states, acc, stack, i) ==
    IF i > Len(stack) THEN Built(states, acc)
    ELSE LET b == Concat(states, acc, stack[i])
         IN ReduceConcat(b.states, b.frag, stack, i + 1)

\* The body of Nfa::parse after line 70, on the postfix tokens:
\* [ok, states, frag]; ok is FALSE when an unwrap of None panicked
ParsePostfix(states, tokens) ==
    LET p == ParseLoop(states, <<>>, tokens, 1)
    IN IF ~p.ok \/ Len(p.stack) = 0
       THEN [ok |-> FALSE, states |-> <<>>, frag |-> Fragment(0, 0)]
       ELSE LET b == ReduceConcat(p.states, p.stack[1], p.stack, 2)
            IN [ok |-> TRUE, states |-> b.states, frag |-> b.frag]

\* Nfa::parse
Parse(states, pat) ==
    ParsePostfix(states, ToPostfix(InsertExplicitConcatOperator(pat)))

----------------------------------------------------------------------------
(* Epsilon closure and Nfa::matches *)

Min(S) == CHOOSE x \in S : \A y \in S : x <= y

\* One iteration order of a set of state identifiers.  The order in which a
\* HashSet is iterated is unspecified; the operators below fix the ascending
\* one, and the work-list of specification SpecBuilder takes every order.
RECURSIVE Ascending(_)
Ascending(S) ==
    IF S = {} THEN <<>> ELSE <<Min(S)>> \o Ascending(S \ {Min(S)})

PushFirst(stk, order) ==
    IF Len(order) = 0 THEN stk ELSE Append(stk, order[1])

\* for &next_state in epsilon_transitions.iter() { stack.push(next_state) },
\* the set iterated in the given order
PushAll(stk, order) == stk \o order

\* while let Some(state) = stack.pop() { if visited.insert(state) { push all } }
RECURSIVE WorkList(_, _, _)
WorkList(states, stack, visited) ==
    IF Len(stack) = 0 THEN visited
    ELSE LET state == Last(stack) IN
         IF state \notin visited
         THEN WorkList(states,
                       PushAll(Pop(stack),
                               Ascending(StateAt(states, state).epsilon_transitions)),
                       visited \cup {state})
         ELSE WorkList(states, Pop(stack), visited)

SeqRange(s) == {s[i] : i \in 1..Len(s)}

MultiEpsilonClosureShallow(states, startVec) ==
    SeqRange(startVec)
    \cup UNION {StateAt(states, s).epsilon_transitions : s \in SeqRange(startVec)}

MultiEpsilonClosure(states, startVec) == WorkList(states, startVec, {})

EpsilonClosure(states, s) == MultiEpsilonClosure(states, <<s>>)

ClosureOfAll(states, targets) == UNION {EpsilonClosure(states, n) : n \in targets}

NextOfStateStays(states, state, c) ==
    LET exact == MapGet(StateAt(states, state).transitions, c)
        any == MapGet(StateAt(states, state).transitions, Wildcard)
    IN IF exact # {} THEN ClosureOfAll(states, exact)
       ELSE IF any # {} THEN ClosureOfAll(states, any)
       ELSE {state}

\* What one state of current_states adds to next_states on symbol c
NextOfState(states, state, c) ==
    LET exact == MapGet(StateAt(states, state).transitions, c)
        any == MapGet(StateAt(states, state).transitions, Wildcard)
    IN IF exact # {} THEN ClosureOfAll(states, exact)
       ELSE IF any # {} THEN ClosureOfAll(states, any)
       ELSE {}

NextStates(states, current, c) ==
    UNION {NextOfState(states, state, c) : state \in current}

RECURSIVE MatchLoop(_, _, _, _)
MatchLoop(states, current, s, i) ==
    IF i > Len(s) THEN current
    ELSE MatchLoop(states, NextStates(states, current, s[i]), s, i + 1)

Matches(states, from, s) ==
    \E state \in MatchLoop(states, EpsilonClosure(states, from), s, 1) :
        StateAt(states, state).accepting

\* is_match: Regex::new(pattern).matches(input); a panic of parse is FALSE here
IsMatch(pat, s) ==
    LET p == Parse(NfaNew, pat) IN p.ok /\ Matches(p.states, p.frag.start, s)

----------------------------------------------------------------------------
(* Regular expressions and their languages: the reference the compiler is  *)
(* checked against.  An expression is <<"lit", c>>, <<"grp", r>>,          *)
(* <<"star", r>>, <<"cat", r1, r2>> or <<"alt", r1, r2>>.                  *)

RECURSIVE RegexOfSize(_)
RegexOfSize(n) ==
    IF n = 0 THEN {}
    ELSE IF n = 1 THEN {<<"lit", c>> : c \in Literals}
    ELSE {<<op, r>> : op \in {"grp", "star"}, r \in RegexOfSize(n - 1)}
         \cup UNION {{<<op, r1, r2>> : op \in {"cat", "alt"},
                                       r1 \in RegexOfSize(k),
                                       r2 \in RegexOfSize(n - 1 - k)}
                     : k \in 1..(n - 2)}

RegexSet == UNION {RegexOfSize(n) : n \in 1..MaxRegexSize}

Level(r) ==
    IF r[1] = "alt" THEN 0 ELSE IF r[1] = "cat" THEN 1
    ELSE IF r[1] = "star" THEN 2 ELSE 3

\* The pattern text of an expression: parentheses where the precedence
\* star > concatenation > union needs them, and around every "grp".
RECURSIVE Show(_)
Wrap(r, level) ==
    IF Level(r) < level THEN <<"(">> \o Show(r) \o <<")">> ELSE Show(r)
Show(r) ==
    IF r[1] = "lit" THEN <<r[2]>>
    ELSE IF r[1] = "grp" THEN <<"(">> \o Show(r[2]) \o <<")">>
    ELSE IF r[1] = "star" THEN Wrap(r[2], 2) \o <<"*">>
    ELSE IF r[1] = "cat" THEN Wrap(r[2], 1) \o Wrap(r[3], 1)
    ELSE Wrap(r[2], 0) \o <<"|">> \o Wrap(r[3], 0)

\* s is in the regular language of r
RECURSIVE InLanguage(_, _)
InLanguage(r, s) ==
    IF r[1] = "lit" THEN s = <<r[2]>>
    ELSE IF r[1] = "grp" THEN InLanguage(r[2], s)
    ELSE IF r[1] = "alt" THEN InLanguage(r[2], s) \/ InLanguage(r[3], s)
    ELSE IF r[1] = "cat" THEN
        \E k \in 0..Len(s) : /\ InLanguage(r[2], SubSeq(s, 1, k))
                             /\ InLanguage(r[3], SubSeq(s, k + 1, Len(s)))
    ELSE \/ s = <<>>
         \/ \E k \in 1..Len(s) : /\ InLanguage(r[2], SubSeq(s, 1, k))
                                 /\ InLanguage(r, SubSeq(s, k + 1, Len(s)))

\* Every expression with its pattern text
PatternTable == {<<Show(r), r>> : r \in RegexSet}

WellFormedPatterns == {e[1] : e \in PatternTable}

\* Well-formedness of a pattern over literals, '|', '*', '(' and ')'
\* The parentheses are balanced: ')' never closes an unopened group
Balanced(pat) ==
    /\ \A i \in 1..Len(pat) :
           pat[i] = ")" => Cardinality({j \in 1..i : pat[j] = "("})
                             >= Cardinality({j \in 1..i : pat[j] = ")"})
    /\ Cardinality({j \in 1..Len(pat) : pat[j] = "("})
         = Cardinality({j \in 1..Len(pat) : pat[j] = ")"})

WellFormed(pat) ==
    /\ Len(pat) > 0
    /\ Balanced(pat)
    /\ pat[1] \notin {"|", "*", ")"}
    /\ pat[Len(pat)] \notin {"|", "("}
    /\ \A i \in 2..Len(pat) :
           /\ pat[i - 1] = "(" => pat[i] \notin {")", "|", "*"}
           /\ pat[i - 1] = "|" => pat[i] \notin {")", "|", "*"}

----------------------------------------------------------------------------
(* Regex::new and Regex::matches: specification Spec *)

\* "a(b|c)*d" of tests::test_pattern_complex
ComplexPattern == <<"a", "(", "b", "|", "c", ")", "*", "d">>

\* The inputs of the complex pattern that the tests and the scenarios name
ComplexNamedInputs ==
    {<<"a", "c", "b", "c", "c", "b", "d">>, <<"a", "b", "b", "b", "d">>,
     <<"a", "c", "c", "c", "d">>, <<"a", "b", "c", "d">>, <<"a", "e", "d">>,
     <<"a", "a", "d">>}

\* Patterns of literal symbols alone, the wildcard symbol among them
LiteralPatterns ==
    StringsUpTo(Literals \cup {Wildcard}, MaxLitLen) \ {<<>>}

\* Patterns that are not well formed
MalformedPatterns ==
    {pat \in StringsUpTo({"a", "(", ")", "|", "*"}, MaxMalformedLen) :
        ~WellFormed(pat)}

\* The calls Regex::new(pattern) followed by matches(input) that are modelled
Calls ==
    (WellFormedPatterns \X StringsUpTo(Literals, MaxInputLen))
    \cup {<<pat, s>> \in LiteralPatterns
                         \X StringsUpTo(Literals \cup {Wildcard}, MaxLitLen + 1) :
              Len(s) <= Len(pat) + 1}
    \cup (MalformedPatterns \X {<<>>, <<"a">>})
    \cup ({ComplexPattern}
          \X (StringsUpTo(ComplexLiterals, MaxComplexLen) \cup ComplexNamedInputs))

\* The parts of the state a specification does not use
BuilderIdle == frags = {}
DfaIdle == dfa = <<>> /\ word = <<>> /\ accepted = FALSE
MatchIdle ==
    /\ idx = 0 /\ current_states = {} /\ next_states = {} /\ todo = {}
    /\ cl_stack = <<>> /\ cl_visited = {}
AllocIdle == arena = <<>> /\ new_id = 0
AcceptorIdle == nstate = AcceptorStateNew(0, FALSE) /\ added = <<>>

Init ==
    /\ pc = "new"
    /\ \E call \in Calls : pattern = call[1] /\ input = call[2]
    /\ explicit = <<>>
    /\ postfix = <<>>
    /\ nfa = NfaNew
    /\ start = 0
    /\ result = FALSE
    /\ BuilderIdle /\ DfaIdle /\ MatchIdle /\ AllocIdle /\ AcceptorIdle

\* line 70, inner call
InsertConcat ==
    /\ pc = "new"
    /\ explicit' = InsertExplicitConcatOperator(pattern)
    /\ pc' = "explicit"
    /\ UNCHANGED <<pattern, input, postfix, nfa, start, result, builderVars, dfaVars, matchVars,
                 allocVars, acceptorVars>>

\* line 70, outer call
Postfix ==
    /\ pc = "explicit"
    /\ postfix' = ToPostfix(explicit)
    /\ pc' = "postfix"
    /\ UNCHANGED <<pattern, input, explicit, nfa, start, result, builderVars, dfaVars, matchVars,
                 allocVars, acceptorVars>>

\* The rest of Nfa::parse and of Regex::new: the handle, or the panic, which
\* unwinds and drops the automaton under construction
RegexNew ==
    /\ pc = "postfix"
    /\ LET p == ParsePostfix(nfa, postfix)
       IN /\ pc' = IF p.ok THEN "ready" ELSE "panic"
          /\ nfa' = p.states
          /\ start' = p.frag.start
    /\ UNCHANGED <<pattern, input, explicit, postfix, result, builderVars, dfaVars, matchVars,
                 allocVars, acceptorVars>>

RegexMatches ==
    /\ pc = "ready"
    /\ result' = Matches(nfa, start, input)
    /\ pc' = "matched"
    /\ UNCHANGED <<pattern, input, explicit, postfix, nfa, start, builderVars, dfaVars, matchVars,
                 allocVars, acceptorVars>>

Next == InsertConcat \/ Postfix \/ RegexNew \/ RegexMatches

Spec == Init /\ [][Next]_vars

----------------------------------------------------------------------------
(* Claims on Regex::new and Regex::matches *)

\* C1: for a well-formed pattern of literals, '|', '*' and parentheses and
\* any input, matches answers TRUE exactly when the input is in the regular
\* language the pattern denotes (star over concatenation over union).
C1_MatchesIsLanguageMembership ==
    pc = "matched" =>
        \A e \in PatternTable :
            e[1] = pattern => (result <=> InLanguage(e[2], input))

\* A star of a union has matched an input of two different symbols.
C1_Witness ==
    /\ pc = "matched"
    /\ pattern = <<"(", "a", "|", "b", ")", "*">>
    /\ input = <<"a", "b">>
    /\ result

LiteralOnly(pat) ==
    \A i \in 1..Len(pat) : pat[i] \notin {"(", ")", "|", "*", "?", "+", NUL}

\* C2: a pattern of literal symbols alone matches itself, and does not match
\* itself followed by one more symbol.
C2_LiteralPatternMatchesItself ==
    (pc = "matched" /\ LiteralOnly(pattern)) =>
        /\ input = pattern => result
        /\ (Len(input) = Len(pattern) + 1
            /\ SubSeq(input, 1, Len(pattern)) = pattern) => ~result

\* "ab" has rejected "abb".
C2_Witness ==
    /\ pc = "matched"
    /\ pattern = <<"a", "b">>
    /\ input = <<"a", "b", "b">>
    /\ ~result

\* C3: union law: the pattern p|q of two well-formed patterns matches an
\* input exactly when p matches it or q matches it.
C3_UnionLaw ==
    pc = "matched" =>
        \A k \in 1..Len(pattern) :
            LET p == SubSeq(pattern, 1, k - 1)
                q == SubSeq(pattern, k + 1, Len(pattern))
            IN (pattern[k] = "|" /\ WellFormed(p) /\ WellFormed(q)) =>
                   (result <=> (IsMatch(p, input) \/ IsMatch(q, input)))

\* "a|b*" has matched "bb", which its right operand alone matches.
C3_Witness ==
    /\ pc = "matched"
    /\ pattern = <<"a", "|", "b", "*">>
    /\ input = <<"b", "b">>
    /\ result
    /\ ~IsMatch(<<"a">>, input)
    /\ IsMatch(<<"b", "*">>, input)

RECURSIVE Repeat(_, _)
Repeat(s, n) == IF n = 0 THEN <<>> ELSE s \o Repeat(s, n - 1)

\* C4, as stated: closure law: for a pattern p and n >= 0, the pattern p*
\* matches p repeated n times.
C4_ClosureLaw ==
    pc = "matched" =>
        \A p \in StringsUpTo(Literals, MaxLitLen) \ {<<>>} :
            \A n \in 0..MaxInputLen :
                (pattern = Append(p, "*") /\ input = Repeat(p, n)) => result

\* C4, amended: for a pattern p that is one literal symbol and n >= 0, the
\* pattern p* matches p repeated n times.
C4_ClosureLawOfOneSymbol ==
    pc = "matched" =>
        \A c \in Literals :
            \A n \in 0..MaxInputLen :
                (pattern = <<c, "*">> /\ input = Repeat(<<c>>, n)) => result

\* "a*" has matched "aaa".
C4_Witness ==
    /\ pc = "matched"
    /\ pattern = <<"a", "*">>
    /\ input = <<"a", "a", "a">>
    /\ result

\* 'a', then any number of 'b' or 'c', then 'd'
ComplexShape(s) ==
    /\ Len(s) >= 2
    /\ s[1] = "a"
    /\ s[Len(s)] = "d"
    /\ \A i \in 2..(Len(s) - 1) : s[i] \in {"b", "c"}

\* C6: the regex of "a(b|c)*d" accepts exactly the strings made of 'a', any
\* number of 'b' or 'c', and 'd': "ad", "abd", "acbccbd" among them, and
\* none of "a", "ab", "d", "aed", "aad".
C6_ComplexPattern ==
    (pc = "matched" /\ pattern = ComplexPattern) =>
        /\ result <=> ComplexShape(input)
        /\ input \in {<<"a", "d">>, <<"a", "b", "d">>,
                      <<"a", "c", "b", "c", "c", "b", "d">>} => result
        /\ input \in {<<"a">>, <<"a", "b">>, <<"d">>, <<"a", "e", "d">>,
                      <<"a", "a", "d">>} => ~result

\* "a(b|c)*d" has matched "acbccbd".
C6_Witness ==
    /\ pc = "matched"
    /\ pattern = ComplexPattern
    /\ input = <<"a", "c", "b", "c", "c", "b", "d">>
    /\ result

\* C9: compiling a malformed pattern is fatal: Regex::new returns a handle
\* for no pattern that is not well formed.
C9_MalformedPatternIsFatal ==
    pc \in {"ready", "matched"} => WellFormed(pattern)

----------------------------------------------------------------------------
(* The builders called directly: specification SpecBuilder *)

RegexIdle == pattern = <<>> /\ explicit = <<>> /\ postfix = <<>>

BuilderInit ==
    /\ pc = "build"
    /\ nfa = NfaNew
    /\ frags = {}
    /\ input = <<>> /\ start = 0 /\ result = FALSE
    /\ RegexIdle /\ DfaIdle /\ MatchIdle /\ AllocIdle /\ AcceptorIdle

\* A builder has returned: the caller owns the new fragment in place of the
\* fragments it gave away (a Fragment is moved into the builder, not copied)
Return(b, consumed) ==
    /\ nfa' = b.states
    /\ frags' = (frags \ consumed) \cup {b.frag}
    /\ UNCHANGED <<pc, input, start, result, regexVars, dfaVars, matchVars,
                   allocVars, acceptorVars>>

CanAllocate == Len(nfa) \div 2 < MaxFragmentsBuilt

CallSymbol ==
    /\ pc = "build" /\ CanAllocate
    /\ \E c \in Literals : Return(Symbol(nfa, c), {})

CallConcat ==
    /\ pc = "build"
    /\ \E f1 \in frags : \E f2 \in frags \ {f1} :
           Return(Concat(nfa, f1, f2), {f1, f2})

CallUnion ==
    /\ pc = "build" /\ CanAllocate
    /\ \E f1 \in frags : \E f2 \in frags \ {f1} :
           Return(Union(nfa, f1, f2), {f1, f2})

CallClosure ==
    /\ pc = "build" /\ CanAllocate
    /\ \E f \in frags : Return(Closure(nfa, f), {f})

BuilderNext == CallSymbol \/ CallConcat \/ CallUnion \/ CallClosure

SpecBuilder == BuilderInit /\ [][BuilderNext]_vars

StateIds(states) == 0..(Len(states) - 1)

\* C5: the epsilon closure is idempotent: the closure of all the states of
\* epsilon_closure(s) is epsilon_closure(s), for every state s of an
\* automaton the builders have made.
C5_EpsilonClosureIdempotent ==
    \A s \in StateIds(nfa) :
        MultiEpsilonClosure(nfa, Ascending(EpsilonClosure(nfa, s)))
            = EpsilonClosure(nfa, s)

\* A star has been built over a fragment: its start reaches four states or
\* more by epsilon transitions, through the cycle of the star.
C5_Witness ==
    \E s \in StateIds(nfa) :
        /\ Cardinality(EpsilonClosure(nfa, s)) >= 4
        /\ \E t \in EpsilonClosure(nfa, s) \ {s} : s \in EpsilonClosure(nfa, t)

\* The accepting states of an automaton
AcceptingStates(states) == {s \in StateIds(states) : StateAt(states, s).accepting}

\* C11: after any sequence of symbol, concat, union and closure in which each
\* fragment is consumed at most once, every unconsumed fragment has a
\* non-accepting start state and an accepting end state, and the accepting
\* states of the automaton are exactly the end states of the unconsumed
\* fragments.
C11_FragmentInvariant ==
    /\ \A f \in frags :
           /\ ~StateAt(nfa, f.start).accepting
           /\ StateAt(nfa, f.end).accepting
    /\ AcceptingStates(nfa) = {f.end : f \in frags}

\* Two fragments are unconsumed, one of them made by a composing builder
\* from fragments whose ends are no longer accepting.
C11_Witness ==
    /\ Cardinality(frags) = 2
    /\ Len(nfa) >= 6
    /\ \E s \in StateIds(nfa) :
           /\ ~StateAt(nfa, s).accepting
           /\ StateAt(nfa, s).epsilon_transitions # {}
           /\ \E f \in frags : s \notin {f.start, f.end}

----------------------------------------------------------------------------
(* The two text passes of Nfa::parse on any text: specification SpecText *)

\* The characters the two passes tell apart, and two literals
TextTokens == {"a", "b", "(", ")", "|", "*", "?", "+"}
Operators == {NUL, "|", "*", "?", "+"}

\* Expressions with the three postfix quantifiers: <<"lit", c>>,
\* <<"(", r>> for a group, <<q, r>> for a quantifier q, <<NUL, r1, r2>> for a
\* concatenation and <<"|", r1, r2>> for a union
RECURSIVE ExprOfSize(_)
ExprOfSize(n) ==
    IF n = 1 THEN {<<"lit", c>> : c \in Literals}
    ELSE {<<op, r>> : op \in {"(", "*", "?", "+"}, r \in ExprOfSize(n - 1)}
         \cup UNION {{<<op, r1, r2>> : op \in {NUL, "|"},
                                       r1 \in ExprOfSize(k),
                                       r2 \in ExprOfSize(n - 1 - k)} :
                        k \in 1..(n - 2)}

ExprSet == UNION {ExprOfSize(n) : n \in 1..MaxExprSize}

\* Precedence union < concatenation < postfix quantifiers < atoms
ExprLevel(r) ==
    IF r[1] = "|" THEN 0 ELSE IF r[1] = NUL THEN 1
    ELSE IF r[1] \in {"*", "?", "+"} THEN 2 ELSE 3

\* The one text whose parse, with that precedence and left-associative
\* binary operators, is the expression: the right operand of a binary
\* operator is parenthesised unless it binds tighter than the operator
RECURSIVE ExprText(_)
ExprWrap(r, level) ==
    IF ExprLevel(r) < level THEN <<"(">> \o ExprText(r) \o <<")">>
    ELSE ExprText(r)
ExprText(r) ==
    IF r[1] = "lit" THEN <<r[2]>>
    ELSE IF r[1] = "(" THEN <<"(">> \o ExprText(r[2]) \o <<")">>
    ELSE IF r[1] \in {"*", "?", "+"} THEN ExprWrap(r[2], 2) \o <<r[1]>>
    ELSE IF r[1] = NUL THEN ExprWrap(r[2], 1) \o ExprWrap(r[3], 2)
    ELSE ExprWrap(r[2], 0) \o <<"|">> \o ExprWrap(r[3], 1)

\* The postfix serialization of an expression: operands, then the operator
RECURSIVE ExprPostfix(_)
ExprPostfix(r) ==
    IF r[1] = "lit" THEN <<r[2]>>
    ELSE IF r[1] = "(" THEN ExprPostfix(r[2])
    ELSE IF Len(r) = 2 THEN ExprPostfix(r[2]) \o <<r[1]>>
    ELSE ExprPostfix(r[2]) \o ExprPostfix(r[3]) \o <<r[1]>>

ExprTable == {<<ExprText(r), ExprPostfix(r)>> : r \in ExprSet}

\* Every text of up to n characters, and the texts of the expressions
TextPatterns(n) ==
    StringsUpTo(TextTokens, n) \cup {e[1] : e \in ExprTable}

TextInit ==
    /\ pc = "new"
    /\ pattern \in TextPatterns(MaxTextLen)
    /\ input = <<>>
    /\ explicit = <<>>
    /\ postfix = <<>>
    /\ nfa = NfaNew
    /\ start = 0
    /\ result = FALSE
    /\ BuilderIdle /\ DfaIdle /\ MatchIdle /\ AllocIdle /\ AcceptorIdle

TextNext == InsertConcat \/ Postfix

SpecText == TextInit /\ [][TextNext]_vars

\* A marker belongs between prev and cur
MarkerBetween(prev, cur) ==
    prev \notin {"(", "|"} /\ cur \notin {")", "|", "*", "?", "+"}

\* The place of character k of the pattern in the output: one step for
\* each character and one for each marker up to it
PlaceOf(pat, k) ==
    k + Cardinality({j \in 2..k : MarkerBetween(pat[j - 1], pat[j])})

IsMarker(c) == c = NUL
NotMarker(c) == c # NUL

\* C14: insert_explicit_concat_operator outputs the characters of the
\* pattern in their order, with one marker between two adjacent characters
\* (prev, cur) exactly when prev is neither '(' nor '|' and cur is none of
\* ')', '|', '*', '?', '+'; no marker comes first or last, and deleting the
\* markers gives back the pattern.
C14_MarkersBetweenOperands ==
    pc \in {"explicit", "postfix"} =>
        /\ Len(explicit) = PlaceOf(pattern, Len(pattern))
        /\ \A k \in 1..Len(pattern) :
               /\ explicit[PlaceOf(pattern, k)] = pattern[k]
               /\ k > 1 =>
                      IF MarkerBetween(pattern[k - 1], pattern[k])
                      THEN /\ explicit[PlaceOf(pattern, k) - 1] = NUL
                           /\ PlaceOf(pattern, k) = PlaceOf(pattern, k - 1) + 2
                      ELSE PlaceOf(pattern, k) = PlaceOf(pattern, k - 1) + 1
        /\ Len(explicit) > 0 => explicit[1] # NUL /\ explicit[Len(explicit)] # NUL
        /\ SelectSeq(explicit, NotMarker) = pattern

\* "a?b*" has become "a?\0b*": a marker after the quantifier, none before it.
C14_Witness ==
    /\ pc = "explicit"
    /\ pattern = <<"a", "?", "b", "*">>
    /\ explicit = <<"a", "?", NUL, "b", "*">>

IsParen(c) == c \in {"(", ")"}
IsLiteral(c) == c \notin Operators \cup {"(", ")"}
Occurrences(s, c) == Cardinality({i \in 1..Len(s) : s[i] = c})

\* C15: for every preprocessed pattern with balanced parentheses, to_postfix
\* yields the postfix serialization of the expression parsed with precedence
\* union < concatenation < postfix quantifiers and left-associative binary
\* operators; the output has no parentheses, keeps the literals in input
\* order, and has each operator of the input exactly once.
C15_PostfixOfBalanced ==
    (pc = "postfix" /\ Balanced(explicit)) =>
        /\ \A e \in ExprTable : e[1] = pattern => postfix = e[2]
        /\ SelectSeq(postfix, IsParen) = <<>>
        /\ SelectSeq(postfix, IsLiteral) = SelectSeq(explicit, IsLiteral)
        /\ \A op \in Operators : Occurrences(postfix, op) = Occurrences(explicit, op)

\* "a|b|a" is (a|b)|a: the first union is popped before the second is pushed.
C15_Witness ==
    /\ pc = "postfix"
    /\ pattern = <<"a", "|", "b", "|", "a">>
    /\ postfix = <<"a", "b", "|", "a", "|">>

----------------------------------------------------------------------------
(* Patterns that leave several fragments on the stack: specification       *)
(* SpecFold.  Nfa::parse takes '?' and '+' for literal symbols, so that a   *)
(* quantifier to_postfix has moved behind its operand becomes a fragment of *)
(* its own and no concat token joins the two.                               *)

FoldTokens == {"a", "?", "+", "*"}
FoldSymbols == {"a", "?", "+"}

FoldInit ==
    /\ pc = "new"
    /\ pattern \in StringsUpTo(FoldTokens, MaxFoldLen)
    /\ input \in StringsUpTo(FoldSymbols, MaxFoldLen)
    /\ explicit = <<>>
    /\ postfix = <<>>
    /\ nfa = NfaNew
    /\ start = 0
    /\ result = FALSE
    /\ BuilderIdle /\ DfaIdle /\ MatchIdle /\ AllocIdle /\ AcceptorIdle

SpecFold == FoldInit /\ [][Next]_vars

\* s is a concatenation of one string of each of the fragments k.. of the
\* stack, in stack order, where the strings of a fragment are those the
\* automaton accepts from the fragment's start
RECURSIVE InFragments(_, _, _, _)
InFragments(states, stack, k, s) ==
    IF k > Len(stack) THEN s = <<>>
    ELSE \E n \in 0..Len(s) :
             /\ Matches(states, stack[k].start, SubSeq(s, 1, n))
             /\ InFragments(states, stack, k + 1, SubSeq(s, n + 1, Len(s)))

\* C16: when more than one fragment remains on the operand stack after the
\* postfix tokens, parse folds them with concat from the bottom of the stack
\* up: the returned fragment starts at the bottom fragment's start and ends
\* at the top fragment's end, and from that start the automaton accepts
\* exactly the concatenations of the fragments' strings in stack order.
C16_FoldIsConcatInStackOrder ==
    pc \in {"ready", "matched"} =>
        LET p == ParseLoop(NfaNew, <<>>, postfix, 1)
            r == ParsePostfix(NfaNew, postfix)
        IN (p.ok /\ Len(p.stack) > 1) =>
               /\ nfa = r.states /\ start = r.frag.start
               /\ r.frag.start = p.stack[1].start
               /\ r.frag.end = p.stack[Len(p.stack)].end
               /\ pc = "matched" =>
                      (result <=> InFragments(p.states, p.stack, 1, input))

\* "a?+" leaves the three fragments of a, '?' and '+' on the stack, and the
\* folded automaton has accepted the string "a?+".
C16_Witness ==
    /\ pc = "matched"
    /\ pattern = <<"a", "?", "+">>
    /\ Len(ParseLoop(NfaNew, <<>>, postfix, 1).stack) = 3
    /\ input = <<"a", "?", "+">>
    /\ result

\* C20: for every well-formed pattern (non-empty, balanced parentheses
\* around non-empty groups, an operand on each side of every '|', every '*'
\* directly after an operand, tokens limited to literals, '|', '*', '(' and
\* ')'), Nfa::parse on a fresh Nfa never pops an empty operand stack, exactly
\* one fragment is on the stack when the postfix tokens are exhausted, so
\* that the final fold performs no concat, and the returned fragment's end
\* is the only accepting state of the automaton.
C20_WellFormedParsesToOneFragment ==
    (WellFormed(pattern) /\ \A i \in 1..Len(pattern) : pattern[i] \notin {"?", "+", NUL})
    =>
        /\ pc # "panic"
        /\ pc \in {"postfix", "ready", "matched"} =>
               LET p == ParseLoop(NfaNew, <<>>, postfix, 1)
               IN /\ p.ok
                  /\ Len(p.stack) = 1
                  /\ pc \in {"ready", "matched"} =>
                         /\ nfa = p.states
                         /\ start = p.stack[1].start
                         /\ AcceptingStates(nfa) = {p.stack[1].end}

\* "(a|b)*" has been compiled: eight states, the end of the star's fragment
\* the only accepting one.
C20_Witness ==
    /\ pc = "ready"
    /\ pattern = <<"(", "a", "|", "b", ")", "*">>
    /\ Len(nfa) = 8
    /\ AcceptingStates(nfa) = {7}

----------------------------------------------------------------------------
(* Dfa: specification SpecDfa *)

\* enum Sigma of tests::test_simple_dfa
Sigma == {"Zero", "One"}

\* dfa::State::new
DfaStateNew(id, accepting) ==
    [id |-> id, accepting |-> accepting, transitions |-> {}]

\* dfa::State::add_transition: one destination for a symbol
DfaStateAddTransition(st, symbol, to) ==
    [st EXCEPT !.transitions = MapInsert(@, symbol, to)]

\* dfa::State::next, as the set of the destinations found (empty for None)
DfaStateNext(st, symbol) == MapGet(st.transitions, symbol)

ArenaNextIdOneBased(items) == Len(items) + 1

\* Arena::next_id
ArenaNextId(items) == Len(items)

\* Arena::alloc_with_id: the arena afterwards and the identifier returned;
\* the closure f is a function of the identifier
ArenaAllocWithId(items, f) ==
    LET id == ArenaNextId(items)
    IN [items |-> Append(items, f[id]), id |-> id]

\* Arena::alloc
ArenaAlloc(items, item) ==
    ArenaAllocWithId(items, [id \in Nat |-> item])

\* Dfa::add_state: alloc_with_id for the closure |id| State::new(id, accepting)
DfaAddStateCall(items, accepting) ==
    ArenaAllocWithId(items, [id \in Nat |-> DfaStateNew(id, accepting)])

\* The arena after Dfa::add_state
DfaAddState(items, accepting) == DfaAddStateCall(items, accepting).items

DfaAddTransition(items, from, symbol, to) ==
    [items EXCEPT ![from + 1] = DfaStateAddTransition(@, symbol, to)]

DfaNext(items, current_state, symbol) ==
    DfaStateNext(items[current_state + 1], symbol)

DfaWalkSkipsMissing(items, current_state, w, i) ==
    LET RECURSIVE walk(_, _)
        walk(cur, k) ==
            IF k > Len(w) THEN <<TRUE, cur>>
            ELSE LET n == DfaNext(items, cur, w[k])
                 IN IF n # {} THEN walk(CHOOSE x \in n : TRUE, k + 1)
                    ELSE walk(cur, k + 1)
    IN walk(current_state, i)

\* The loop of Dfa::accepts from symbol i on: <<FALSE, _>> for the early
\* return, <<TRUE, state>> with the state the word ends in
RECURSIVE DfaWalk(_, _, _, _)
DfaWalk(items, current_state, w, i) ==
    IF i > Len(w) THEN <<TRUE, current_state>>
    ELSE LET n == DfaNext(items, current_state, w[i])
         IN IF n # {} THEN DfaWalk(items, CHOOSE x \in n : TRUE, w, i + 1)
            ELSE <<FALSE, current_state>>

DfaAcceptsChecksStart(items, w) ==
    IF Len(items) = 0 THEN FALSE
    ELSE LET r == DfaWalk(items, 0, w, 1)
         IN r[1] /\ items[1].accepting

DfaAccepts(items, w) ==
    IF Len(items) = 0 THEN FALSE
    ELSE LET r == DfaWalk(items, 0, w, 1)
         IN r[1] /\ items[r[2] + 1].accepting

DfaInit ==
    /\ pc = "dfa"
    /\ dfa = <<>> /\ word = <<>> /\ accepted = FALSE
    /\ nfa = NfaNew /\ input = <<>> /\ start = 0 /\ result = FALSE
    /\ RegexIdle /\ BuilderIdle /\ MatchIdle /\ AllocIdle /\ AcceptorIdle

DfaUnchanged ==
    UNCHANGED <<input, nfa, start, result, regexVars, builderVars, matchVars,
                allocVars, acceptorVars>>

AddState ==
    /\ pc = "dfa"
    /\ Len(dfa) < MaxDfaStates
    /\ \E accepting \in BOOLEAN : dfa' = DfaAddState(dfa, accepting)
    /\ pc' = "dfa"
    /\ UNCHANGED <<word, accepted>>
    /\ DfaUnchanged

\* from and to are states of the automaton: Dfa::add_transition panics on a
\* from that is out of range, and accepts panics on reaching such a to
AddTransition ==
    /\ pc = "dfa"
    /\ \E from \in StateIds(dfa), to \in StateIds(dfa), symbol \in Sigma :
           dfa' = DfaAddTransition(dfa, from, symbol, to)
    /\ pc' = "dfa"
    /\ UNCHANGED <<word, accepted>>
    /\ DfaUnchanged

\* accepts takes &self: a behaviour is a construction followed by one query
Accepts ==
    /\ pc = "dfa"
    /\ \E w \in StringsUpTo(Sigma, MaxWordLen) :
           /\ word' = w
           /\ accepted' = DfaAccepts(dfa, w)
    /\ pc' = "accepted"
    /\ UNCHANGED dfa
    /\ DfaUnchanged

DfaSpecNext == AddState \/ AddTransition \/ Accepts

SpecDfa == DfaInit /\ [][DfaSpecNext]_vars

\* The automaton of tests::test_simple_dfa
EvenZeroDfa ==
    <<[id |-> 0, accepting |-> TRUE,
       transitions |-> {<<"One", 0>>, <<"Zero", 1>>}],
      [id |-> 1, accepting |-> FALSE,
       transitions |-> {<<"One", 1>>, <<"Zero", 0>>}]>>

\* C7: the two-state automaton with state 0 accepting, a One loop on each
\* state and a Zero edge from each state to the other accepts exactly the
\* words with an even number of Zero symbols.
C7_EvenZeroDfa ==
    (pc = "accepted" /\ dfa = EvenZeroDfa) =>
        (accepted <=>
            Cardinality({i \in 1..Len(word) : word[i] = "Zero"}) % 2 = 0)

\* The automaton has accepted Zero One One Zero.
C7_Witness ==
    /\ pc = "accepted"
    /\ dfa = EvenZeroDfa
    /\ word = <<"Zero", "One", "One", "Zero">>
    /\ accepted

\* The states in which a walk from state 0 along transitions on the
\* symbols w[1], ..., w[k] can end
RECURSIVE Reached(_, _, _)
Reached(items, w, k) ==
    IF k = 0 THEN {0}
    ELSE UNION {DfaNext(items, q, w[k]) : q \in Reached(items, w, k - 1)}

\* C8: accepts(word) is TRUE exactly when the automaton has a state, a walk
\* from state 0 finds a transition for every symbol of the word, and the
\* walk ends in an accepting state; a symbol without a transition rejects
\* whatever follows it, and an automaton without states rejects every word.
C8_AcceptsIsTheWalk ==
    pc = "accepted" =>
        /\ accepted <=>
               /\ Len(dfa) > 0
               /\ \E q \in Reached(dfa, word, Len(word)) : dfa[q + 1].accepting
        /\ Len(dfa) = 0 => ~accepted
        /\ \A k \in 1..Len(word) :
               (Len(dfa) > 0 /\ Reached(dfa, word, k) = {}) => ~accepted

\* A word has been rejected at its second symbol, with symbols after it,
\* by an automaton all of whose states accept.
C8_Witness ==
    /\ pc = "accepted"
    /\ Len(dfa) > 0
    /\ \A i \in 1..Len(dfa) : dfa[i].accepting
    /\ Len(word) >= 3
    /\ DfaNext(dfa, 0, word[1]) # {}
    /\ \A n \in DfaNext(dfa, 0, word[1]) : DfaNext(dfa, n, word[2]) = {}
    /\ ~accepted

----------------------------------------------------------------------------
(* Allocation of states: specification SpecAlloc *)

\* The items handed to Arena::alloc
ArenaItems == {"x", "y"}

AllocInit ==
    /\ pc = "alloc"
    /\ arena = <<>> /\ new_id = 0
    /\ dfa = <<>> /\ word = <<>> /\ accepted = FALSE
    /\ nfa = NfaNew /\ input = <<>> /\ start = 0 /\ result = FALSE
    /\ RegexIdle /\ BuilderIdle /\ MatchIdle /\ AcceptorIdle

AllocUnchanged ==
    UNCHANGED <<pc, input, start, result, word, accepted, regexVars, builderVars,
                matchVars, acceptorVars>>

\* Arena::alloc on an arena of plain items
CallAlloc ==
    /\ pc = "alloc" /\ Len(arena) < MaxAllocs
    /\ \E item \in ArenaItems :
           LET r == ArenaAlloc(arena, item)
           IN arena' = r.items /\ new_id' = r.id
    /\ UNCHANGED <<dfa, nfa>>
    /\ AllocUnchanged

\* Dfa::add_state, which is Arena::alloc_with_id on Dfa.states
CallAddState ==
    /\ pc = "alloc" /\ Len(dfa) < MaxAllocs
    /\ \E accepting \in BOOLEAN :
           LET r == DfaAddStateCall(dfa, accepting)
           IN dfa' = r.items /\ new_id' = r.id
    /\ UNCHANGED <<arena, nfa>>
    /\ AllocUnchanged

\* Nfa::new_state
CallNewState ==
    /\ pc = "alloc" /\ Len(nfa) < MaxAllocs
    /\ \E accepting \in BOOLEAN :
           /\ nfa' = NewStatePush(nfa, accepting)
           /\ new_id' = NewStateId(nfa)
    /\ UNCHANGED <<arena, dfa>>
    /\ AllocUnchanged

AllocNext == CallAlloc \/ CallAddState \/ CallNewState

SpecAlloc == AllocInit /\ [][AllocNext]_vars

\* The state stored at index i has id i
DenseIds(states) == \A i \in 1..Len(states) : states[i].id = i - 1

\* One step on a container of states or items: an allocation returns the
\* number of elements there were, adds one element, and no step removes or
\* replaces an element that was there
StableStep(before, after) ==
    /\ Len(after) >= Len(before)
    /\ \A i \in 1..Len(before) : after[i] = before[i]
    /\ Len(after) # Len(before) =>
           Len(after) = Len(before) + 1 /\ new_id' = Len(before)

\* C12: state identifiers are dense and stable: an allocation (Arena::alloc,
\* alloc_with_id through Dfa::add_state, Nfa::new_state) returns the number of
\* states that existed before the call, the state stored at index i has id i,
\* the state count never decreases, and no identifier is reused or removed.
C12_DenseStableIds ==
    /\ [](DenseIds(dfa) /\ DenseIds(nfa))
    /\ [][/\ StableStep(arena, arena')
          /\ StableStep(dfa, dfa')
          /\ StableStep(nfa, nfa')]_vars

\* Each of the three allocators has been called more than once, and the
\* last call returned 2.
C12_Witness ==
    /\ Len(arena) >= 2 /\ Len(dfa) >= 2 /\ Len(nfa) >= 2
    /\ new_id = 2

----------------------------------------------------------------------------
(* A State of the fsm-acceptor NFA: specification SpecAcceptor *)

\* The symbols and the destinations of examples/nfa-gv.rs
AcceptorSymbols == {"a", "b"}
AcceptorTargets == {0, 1}

AcceptorInit ==
    /\ pc = "state"
    /\ \E id \in AcceptorTargets, accepting \in BOOLEAN :
           nstate = AcceptorStateNew(id, accepting)
    /\ added = <<>>
    /\ nfa = NfaNew /\ input = <<>> /\ start = 0 /\ result = FALSE
    /\ RegexIdle /\ BuilderIdle /\ DfaIdle /\ MatchIdle /\ AllocIdle

AcceptorUnchanged ==
    UNCHANGED <<pc, input, nfa, start, result, regexVars, builderVars, dfaVars,
                matchVars, allocVars>>

CallAddTransition ==
    /\ pc = "state" /\ Len(added) < MaxAdds
    /\ \E symbol \in AcceptorSymbols, to \in AcceptorTargets :
           /\ nstate' = AcceptorAddTransition(nstate, symbol, to)
           /\ added' = Append(added, <<"add_transition", symbol, to>>)
    /\ AcceptorUnchanged

CallAddEpsilonTransition ==
    /\ pc = "state" /\ Len(added) < MaxAdds
    /\ \E to \in AcceptorTargets :
           /\ nstate' = AcceptorAddEpsilonTransition(nstate, to)
           /\ added' = Append(added, <<"add_epsilon_transition", to>>)
    /\ AcceptorUnchanged

AcceptorSpecNext == CallAddTransition \/ CallAddEpsilonTransition

SpecAcceptor == AcceptorInit /\ [][AcceptorSpecNext]_vars

\* The destinations add_transition was called with for a symbol
AddedFor(symbol) ==
    {call[3] : call \in {x \in SeqRange(added) :
                               x[1] = "add_transition" /\ x[2] = symbol}}

\* The destinations add_epsilon_transition was called with
AddedEpsilon ==
    {call[2] : call \in {x \in SeqRange(added) : x[1] = "add_epsilon_transition"}}

\* C13: an NFA state keeps every transition added to it: next(c) holds every
\* destination ever added for c (a second destination does not overwrite
\* the first), next(c) is None iff none was added, and next_epsilon() is the
\* set of the epsilon destinations added, a repeated one changing nothing.
C13_StateKeepsEveryTransition ==
    /\ \A c \in AcceptorSymbols :
           /\ AcceptorNext(nstate, c) = {} <=> AddedFor(c) = {}
           /\ \A vec \in AcceptorNext(nstate, c) : SeqRange(vec) = AddedFor(c)
    /\ AcceptorNextEpsilon(nstate) = AddedEpsilon

\* State a of examples/nfa-gv.rs after its three add_transition calls, and
\* one epsilon destination added: 'b' leads to both a and b.
C13_Witness ==
    /\ AcceptorNext(nstate, "a") = {<<0>>}
    /\ AcceptorNext(nstate, "b") = {<<0, 1>>}
    /\ AcceptorNextEpsilon(nstate) = {1}

----------------------------------------------------------------------------
(* Nfa::matches step by step: specification SpecMatch *)

\* The automaton Regex::new makes of a pattern
Compiled(pat) == Parse(NfaNew, pat).states

StepPatterns ==
    {Show(r) : r \in UNION {RegexOfSize(n) : n \in 1..MaxStepRegexSize}}

\* The inputs matches is called with on the automaton of a pattern: the
\* wildcard is in the inputs of the literal patterns, which are the ones
\* that can hold it
StepInputs(pat) ==
    IF pat \in LiteralPatterns
    THEN StringsUpTo(Literals \cup {Wildcard}, MaxStepInputLen)
    ELSE StringsUpTo(Literals, MaxStepInputLen)

\* Every order in which a set can be iterated
Orders(S) ==
    {order \in [1..Cardinality(S) -> S] :
        \A i, j \in 1..Cardinality(S) : order[i] = order[j] => i = j}

MatchInit ==
    /\ pc = "enter"
    /\ pattern \in StepPatterns \cup LiteralPatterns
    /\ nfa = Compiled(pattern)
    /\ start \in StateIds(nfa)
    /\ input \in StepInputs(pattern)
    /\ result = FALSE
    /\ explicit = <<>> /\ postfix = <<>>
    /\ BuilderIdle /\ DfaIdle /\ MatchIdle /\ AllocIdle /\ AcceptorIdle

MatchUnchanged ==
    UNCHANGED <<input, nfa, start, regexVars, builderVars, dfaVars,
                allocVars, acceptorVars>>

\* line 163: epsilon_closure(start) is entered with the stack vec![start]
MatchesEnter ==
    /\ pc = "enter"
    /\ cl_stack' = <<start>>
    /\ cl_visited' = {}
    /\ pc' = "closure"
    /\ UNCHANGED <<idx, current_states, next_states, todo, result>>
    /\ MatchUnchanged

ClosurePopRevisits ==
    /\ pc = "closure"
    /\ Len(cl_stack) > 0
    /\ LET state == Last(cl_stack) IN
       /\ cl_visited' = cl_visited \cup {state}
       /\ \E order \in Orders(StateAt(nfa, state).epsilon_transitions) :
              cl_stack' = PushAll(Pop(cl_stack), order)
    /\ UNCHANGED <<pc, idx, current_states, next_states, todo, result>>
    /\ MatchUnchanged

\* lines 151-157: one turn of the work-list loop
ClosurePop ==
    /\ pc = "closure"
    /\ Len(cl_stack) > 0
    /\ LET state == Last(cl_stack) IN
       IF state \notin cl_visited
       THEN /\ cl_visited' = cl_visited \cup {state}
            /\ \E order \in Orders(StateAt(nfa, state).epsilon_transitions) :
                   cl_stack' = PushAll(Pop(cl_stack), order)
       ELSE /\ cl_visited' = cl_visited
            /\ cl_stack' = Pop(cl_stack)
    /\ UNCHANGED <<pc, idx, current_states, next_states, todo, result>>
    /\ MatchUnchanged

\* line 159: visited is returned, to line 163 or to lines 170 and 172
ClosureReturn ==
    /\ pc = "closure"
    /\ Len(cl_stack) = 0
    /\ IF idx = 0
       THEN /\ current_states' = cl_visited
            /\ pc' = "loop"
            /\ UNCHANGED next_states
       ELSE /\ next_states' = next_states \cup cl_visited
            /\ pc' = "iter"
            /\ UNCHANGED current_states
    /\ cl_visited' = {}
    /\ UNCHANGED <<idx, todo, cl_stack, result>>
    /\ MatchUnchanged

LoopNextRestarts ==
    /\ pc = "loop"
    /\ idx < Len(input)
    /\ idx' = idx + 1
    /\ next_states' = {}
    /\ todo' = IF current_states = {} THEN {start} ELSE current_states
    /\ pc' = "iter"
    /\ UNCHANGED <<current_states, cl_stack, cl_visited, result>>
    /\ MatchUnchanged

\* lines 165-166: the next symbol of the input is taken
LoopNext ==
    /\ pc = "loop"
    /\ idx < Len(input)
    /\ idx' = idx + 1
    /\ next_states' = {}
    /\ todo' = current_states
    /\ pc' = "iter"
    /\ UNCHANGED <<current_states, cl_stack, cl_visited, result>>
    /\ MatchUnchanged

TransitionTargetExactOnly(states, state, c) ==
    MapGet(StateAt(states, state).transitions, c)

\* lines 169-173: the target of the state's transition on the symbol, or
\* else of its transition on the wildcard (the empty set for neither)
TransitionTarget(states, state, c) ==
    LET exact == MapGet(StateAt(states, state).transitions, c)
        any == MapGet(StateAt(states, state).transitions, Wildcard)
    IN IF exact # {} THEN exact ELSE any

\* lines 168-173: the next state of current_states, in the ascending order
\* of a BTreeSet: its transition on the symbol, or else on the wildcard
IterState ==
    /\ pc = "iter"
    /\ todo # {}
    /\ LET state == Min(todo)
           target == TransitionTarget(nfa, state, input[idx])
       IN /\ todo' = todo \ {state}
          /\ IF target # {}
             THEN /\ cl_stack' = <<CHOOSE n \in target : TRUE>>
                  /\ pc' = "closure"
             ELSE UNCHANGED <<cl_stack, pc>>
    /\ UNCHANGED <<idx, current_states, next_states, cl_visited, result>>
    /\ MatchUnchanged

\* line 176
IterEnd ==
    /\ pc = "iter"
    /\ todo = {}
    /\ current_states' = next_states
    /\ next_states' = {}
    /\ pc' = "loop"
    /\ UNCHANGED <<idx, todo, cl_stack, cl_visited, result>>
    /\ MatchUnchanged

\* lines 179-181
MatchesReturn ==
    /\ pc = "loop"
    /\ idx = Len(input)
    /\ result' = \E state \in current_states : StateAt(nfa, state).accepting
    /\ pc' = "done"
    /\ UNCHANGED <<idx, current_states, next_states, todo, cl_stack, cl_visited>>
    /\ MatchUnchanged

MatchNext ==
    \/ MatchesEnter \/ ClosurePop \/ ClosureReturn
    \/ LoopNext \/ IterState \/ IterEnd \/ MatchesReturn

SpecMatch == MatchInit /\ [][MatchNext]_vars

\* C10: matches is a pure and deterministic query: in whatever order the
\* epsilon transitions of a state are iterated and the work-list so pops its
\* states, the call returns the same answer for the same automaton, start
\* state and input, and it leaves the automaton as it was.
C10_MatchesIsDeterministic ==
    /\ nfa = Compiled(pattern)
    /\ pc = "done" => (result <=> Matches(nfa, start, input))

\* The call on the automaton of "a*" from its start state has answered
\* TRUE: the start state and the end of 'a' each have two epsilon
\* transitions, iterated in either order.
C10_Witness ==
    /\ pc = "done"
    /\ pattern = <<"a", "*">>
    /\ start = 2
    /\ input = <<"a", "a">>
    /\ result

\* The active set is empty after at least one symbol of the input
Dead ==
    /\ pc \in {"loop", "iter", "done"}
    /\ idx >= 1
    /\ current_states = {}

\* C17: in Nfa::matches the empty active set is absorbing: once the set of
\* current states is empty after an input symbol it stays empty after every
\* later symbol, the loop goes on taking the remaining symbols without
\* failing, and the result is false.
C17_EmptySetIsAbsorbing ==
    /\ [][Dead => Dead']_vars
    /\ [](Dead /\ pc # "done" => ENABLED MatchNext)
    /\ [](Dead /\ pc = "done" => idx = Len(input) /\ ~result)

\* "a" on the input "ba": the set is empty after 'b', the 'a' has been
\* taken all the same, and the answer is false.
C17_Witness ==
    /\ pc = "done"
    /\ pattern = <<"a">> /\ start = 0
    /\ input = <<"b", "a">>
    /\ idx = 2 /\ current_states = {} /\ ~result

\* The states reachable from the states of S by zero or more epsilon
\* transitions
RECURSIVE EpsReach(_, _)
EpsReach(states, S) ==
    LET T == S \cup UNION {StateAt(states, s).epsilon_transitions : s \in S}
    IN IF T = S THEN S ELSE EpsReach(states, T)

\* What a state is to add to next_states on symbol c: the closure of the
\* target of its transition on c; of its wildcard transition if it has none
\* on c; nothing if it has neither
Contribution(states, state, c) ==
    LET exact == MapGet(StateAt(states, state).transitions, c)
        any == MapGet(StateAt(states, state).transitions, Wildcard)
    IN IF exact # {} THEN EpsReach(states, exact)
       ELSE IF any # {} THEN EpsReach(states, any)
       ELSE {}

\* C18: in one step of Nfa::matches on symbol c, a current state with a
\* transition on exactly c contributes only the epsilon closure of that
\* transition's target; the target of its wildcard transition is added only
\* when it has no transition on c, so a state never contributes both.
C18_ExactBeforeWildcard ==
    pc = "iter" =>
        next_states = UNION {Contribution(nfa, state, input[idx]) :
                                 state \in current_states \ todo}

\* ".." on the input "a.": the first state has only a wildcard transition
\* and has taken 'a' by it; the next one takes '.' by its transition on '.'.
C18_Witness ==
    /\ pc = "iter"
    /\ pattern = <<".", ".">> /\ start = 0
    /\ input = <<"a", ".">>
    /\ idx = 2 /\ todo = {} /\ next_states # {}

\* matches runs to its end whenever it is let run
SpecMatchFair == SpecMatch /\ WF_vars(MatchNext)

\* C19: the epsilon-closure work-list terminates on every automaton, those
\* with epsilon cycles included, expands each state at most once, and
\* returns exactly the states reachable from the start state(s) by zero or
\* more epsilon transitions, the start state(s) included.
C19_WorkListTerminates ==
    /\ (pc = "closure") ~> (pc # "closure")
    /\ [][(pc = "closure" /\ Len(cl_stack) > 0 /\ Len(cl_stack') >= Len(cl_stack))
             => Last(cl_stack) \notin cl_visited]_vars
    /\ [][(pc = "closure" /\ pc' = "closure")
             => cl_visited' \cup EpsReach(nfa, SeqRange(cl_stack'))
                  = cl_visited \cup EpsReach(nfa, SeqRange(cl_stack))]_vars
    /\ [](pc = "loop" /\ idx = 0 => current_states = EpsReach(nfa, {start}))
    /\ [](pc = "enter" /\ input = <<>> =>
             \A S \in SUBSET StateIds(nfa) :
                 MultiEpsilonClosure(nfa, Ascending(S)) = EpsReach(nfa, S))

\* "a**" has the epsilon cycle 2 -> 3 -> 2 between the inner star's start
\* and end; the closure of state 3 has returned the four states it reaches.
C19_Witness ==
    /\ pattern = <<"a", "*", "*">> /\ start = 3
    /\ pc = "loop" /\ idx = 0
    /\ current_states = {0, 2, 3, 5}

====
